---- MODULE Spec2Model ----
(***************************************************************************)
(* Model of wavecast's encoder back end (src-tauri/src/lib.rs):            *)
(*   - parse_time_to_seconds      (the time codec)                          *)
(*   - generate_filter_complex    (the audio filter graph compiler)         *)
(*   - convert_timeline_to_video  (timeline session: build, spawn, drain)   *)
(*   - convert_to_video           (legacy flat-file path)                   *)
(*                                                                         *)
(* Numbers.  f64 seconds read from text are fixed-point integers counted   *)
(* in 1/TicksPerSec second, f64 seconds of a clip in 1/ClipTicksPerSec      *)
(* second, f64 gains in hundredths (100 = 1.0).                             *)
(* Text.  A Rust string is a sequence of one-character strings.             *)
(* Paths.  A PathBuf is [root, comps]: an optional root and its components. *)
(* Filter graph.  The graph text "s1;s2;..." is the sequence of its stages; *)
(* a stage "[in..]f1,f2,..[out]" is [ins, filters, outs].                   *)
(***************************************************************************)
EXTENDS Integers, Sequences, FiniteSets, TLC

(* ------------------------------ bounds -------------------------------- *)
MaxLen == 5
MaxTracks == 2
MaxClips == 2
SessMaxTracks == 1
MaxEvents == 2
MaxAudio == 2
MaxNameLen == 5

(* --------------------------- number helpers --------------------------- *)
TicksPerSec == 100
ClipTicksPerSec == 10000

Max2(a, b) == IF a >= b THEN a ELSE b

\* Rust `as i64` on a finite f64 truncates toward zero.
TruncDiv(a, b) == IF a >= 0 THEN a \div b ELSE -((-a) \div b)

RECURSIVE GCD(_, _)
GCD(a, b) == IF b = 0 THEN (IF a < 0 THEN -a ELSE a) ELSE GCD(b, a % b)

\* the fraction n/d, d > 0, in lowest terms
Frac(n, d) == LET g == GCD(n, d) IN [n |-> n \div g, d |-> d \div g]

(* ---------------------------- text helpers ---------------------------- *)
DigitVal == [c \in {"0", "1", "2", "3", "4", "5", "6", "7", "8", "9"} |->
               CASE c = "0" -> 0 [] c = "1" -> 1 [] c = "2" -> 2 [] c = "3" -> 3
                 [] c = "4" -> 4 [] c = "5" -> 5 [] c = "6" -> 6 [] c = "7" -> 7
                 [] c = "8" -> 8 [] c = "9" -> 9]

IsDigit(c) == c \in DOMAIN DigitVal

RECURSIVE DigitsToInt(_)
DigitsToInt(s) ==
    IF s = <<>> THEN 0
    ELSE 10 * DigitsToInt(SubSeq(s, 1, Len(s) - 1)) + DigitVal[s[Len(s)]]

\* value in ticks of the fraction digits after the decimal point
RECURSIVE FracTicks(_, _)
FracTicks(s, scale) ==
    IF s = <<>> \/ scale = 0 THEN 0
    ELSE DigitVal[Head(s)] * (scale \div 10) + FracTicks(Tail(s), scale \div 10)

\* str::parse::<f64>() on the decimal forms: [+-] digits [. digits] | [+-] . digits
\* (exponent, inf and nan forms need letters the modelled alphabet lacks).
ParseF64(s) ==
    LET signed == s /= <<>> /\ s[1] \in {"-", "+"}
        body   == IF signed THEN Tail(s) ELSE s
        dots   == {i \in 1..Len(body) : body[i] = "."}
        dot    == IF dots = {} THEN Len(body) + 1 ELSE CHOOSE i \in dots : TRUE
        ip     == SubSeq(body, 1, dot - 1)
        fp     == SubSeq(body, dot + 1, Len(body))
        ok     == /\ Cardinality(dots) <= 1
                  /\ Len(ip) + Len(fp) >= 1
                  /\ \A i \in 1..Len(ip) : IsDigit(ip[i])
                  /\ \A i \in 1..Len(fp) : IsDigit(fp[i])
        mag    == DigitsToInt(ip) * TicksPerSec + FracTicks(fp, TicksPerSec)
    IN  IF ok THEN [ok |-> TRUE, val |-> IF signed /\ s[1] = "-" THEN -mag ELSE mag]
        ELSE [ok |-> FALSE, val |-> 0]

\* Result::unwrap_or(0.0)
UnwrapOr0(r) == IF r.ok THEN r.val ELSE 0

\* str::split(':').collect(): always at least one part
RECURSIVE SplitColon(_, _, _)
SplitColon(s, cur, acc) ==
    IF s = <<>> THEN Append(acc, cur)
    ELSE IF Head(s) = ":" THEN SplitColon(Tail(s), <<>>, Append(acc, cur))
    ELSE SplitColon(Tail(s), Append(cur, Head(s)), acc)

\* variant: one unparsable part voids the whole three-part parse
parse_time_to_seconds_strict(time_str) ==
    LET parts == SplitColon(time_str, <<>>, <<>>)
    IN  CASE Len(parts) = 1 -> UnwrapOr0(ParseF64(time_str))
          [] Len(parts) = 3 ->
                IF \A i \in 1..3 : ParseF64(parts[i]).ok
                THEN ParseF64(parts[1]).val * 3600 + ParseF64(parts[2]).val * 60
                     + ParseF64(parts[3]).val
                ELSE 0
          [] OTHER -> 0

parse_time_to_seconds(time_str) ==
    LET parts == SplitColon(time_str, <<>>, <<>>)
    IN  CASE Len(parts) = 1 -> UnwrapOr0(ParseF64(time_str))
          [] Len(parts) = 3 ->
                LET hours   == UnwrapOr0(ParseF64(parts[1]))
                    minutes == UnwrapOr0(ParseF64(parts[2]))
                    seconds == UnwrapOr0(ParseF64(parts[3]))
                IN  hours * 3600 + minutes * 60 + seconds
          [] OTHER -> 0

(* ------------------------------- paths -------------------------------- *)
None == [some |-> FALSE]
Some(x) == [some |-> TRUE, val |-> x]

Path(root, comps) == [root |-> root, comps |-> comps]

\* Path::parent(): None for "" and for a bare root
PathParent(p) ==
    IF p.comps = <<>> THEN None
    ELSE Some(Path(p.root, SubSeq(p.comps, 1, Len(p.comps) - 1)))

\* PathBuf::join of a relative one-component name
PathJoin(dir, name) == Path(dir.root, Append(dir.comps, name))

(* --------------------------- output file name -------------------------- *)
UnsafeChars == {"/", "\\", ":", "*", "?", "\"", "<", ">", "|"}

ReplaceUnsafe(name) == [i \in 1..Len(name) |-> IF name[i] \in UnsafeChars THEN "_" ELSE name[i]]

RECURSIVE TrimStart(_)
TrimStart(s) == IF s /= <<>> /\ Head(s) = " " THEN TrimStart(Tail(s)) ELSE s

RECURSIVE TrimEnd(_)
TrimEnd(s) ==
    IF s /= <<>> /\ s[Len(s)] = " " THEN TrimEnd(SubSeq(s, 1, Len(s) - 1)) ELSE s

Trim(s) == TrimEnd(TrimStart(s))

LowerChar(c) == CASE c = "M" -> "m" [] c = "P" -> "p" [] OTHER -> c
ToLowercase(s) == [i \in 1..Len(s) |-> LowerChar(s[i])]

EndsWith(s, suffix) ==
    /\ Len(s) >= Len(suffix)
    /\ SubSeq(s, Len(s) - Len(suffix) + 1, Len(s)) = suffix

DotMp4 == <<".", "m", "p", "4">>

\* variant: the extension is compared as written, without lowering the case
OutputNameCaseSensitive(output_filename) ==
    IF output_filename.some
    THEN LET sanitized == Trim(ReplaceUnsafe(output_filename.val))
         IN  IF EndsWith(sanitized, DotMp4) THEN sanitized
             ELSE sanitized \o DotMp4
    ELSE <<"o", "u", "t", "p", "u", "t">> \o DotMp4

OutputName(output_filename) ==
    IF output_filename.some
    THEN LET sanitized == Trim(ReplaceUnsafe(output_filename.val))
         IN  IF EndsWith(ToLowercase(sanitized), DotMp4) THEN sanitized
             ELSE sanitized \o DotMp4
    ELSE <<"o", "u", "t", "p", "u", "t">> \o DotMp4

(* --------------------------- the filter graph -------------------------- *)
Lbl(name, idx) == [name |-> name, idx |-> idx]
InputPad(idx) == Lbl(":a", idx)
Num(k, v) == [k |-> k, v |-> v]
Filter(f, nums, flags) == [f |-> f, nums |-> nums, flags |-> flags]
Stage(ins, filters, outs) == [ins |-> ins, filters |-> filters, outs |-> outs]

\* iter().position(): 0-based index of the first equal element, -1 for None
Position(seq, x) ==
    IF \E i \in 1..Len(seq) : seq[i] = x
    THEN (CHOOSE i \in 1..Len(seq) : seq[i] = x /\ \A j \in 1..(i - 1) : seq[j] /= x) - 1
    ELSE -1

\* variant: the offset ignores the background-music input
BaseOffsetImageOnly(has_bg_music) == 1

BaseOffset(has_bg_music) == IF has_bg_music THEN 2 ELSE 1

InputIdx(clip, unique_sources, has_bg_music) ==
    Position(unique_sources, clip.source_file) + BaseOffset(has_bg_music)

\* the unwrap() of the position lookup panics when the source is missing
LookupPanics(clips, unique_sources) ==
    \E i \in 1..Len(clips) : Position(unique_sources, clips[i].clip.source_file) = -1

\* variant: the trim end is taken from the clip's trim_end field
ClipStageTrimEnd(i, clip_with_vol, unique_sources, has_bg_music) ==
    LET clip     == clip_with_vol.clip
        delay_ms == TruncDiv(clip.start_time * 1000, ClipTicksPerSec)
    IN  Stage(<<InputPad(InputIdx(clip, unique_sources, has_bg_music))>>,
              <<Filter("atrim", <<Num("start", clip.trim_start), Num("end", clip.trim_end)>>, <<>>),
                Filter("asetpts", <<>>, <<"PTS-STARTPTS">>),
                Filter("volume", <<Num("", clip_with_vol.track_volume)>>, <<>>),
                Filter("adelay", <<Num("", delay_ms), Num("|", delay_ms)>>, <<>>)>>,
              <<Lbl("a", i)>>)

\* one pass of the loop body for the clip at 0-based index i
ClipStage(i, clip_with_vol, unique_sources, has_bg_music) ==
    LET clip      == clip_with_vol.clip
        track_vol == clip_with_vol.track_volume
        input_idx == InputIdx(clip, unique_sources, has_bg_music)
        trim_end  == clip.duration + clip.trim_start
        delay_ms  == TruncDiv(clip.start_time * 1000, ClipTicksPerSec)
    IN  Stage(<<InputPad(input_idx)>>,
              <<Filter("atrim", <<Num("start", clip.trim_start), Num("end", trim_end)>>, <<>>),
                Filter("asetpts", <<>>, <<"PTS-STARTPTS">>),
                Filter("volume", <<Num("", track_vol)>>, <<>>),
                Filter("adelay", <<Num("", delay_ms), Num("|", delay_ms)>>, <<>>)>>,
              <<Lbl("a", i)>>)

\* variant: the mixer reads the labels a1..an
MixStageFromOne(n, main_volume) ==
    Stage([i \in 1..n |-> Lbl("a", i)],
          <<Filter("amix", <<Num("inputs", n)>>, <<"duration=longest">>),
            Filter("volume", <<Num("", main_volume)>>, <<>>)>>,
          <<Lbl("aout", -1)>>)

MixStage(n, main_volume) ==
    Stage([i \in 1..n |-> Lbl("a", i - 1)],
          <<Filter("amix", <<Num("inputs", n)>>, <<"duration=longest">>),
            Filter("volume", <<Num("", main_volume)>>, <<>>)>>,
          <<Lbl("aout", -1)>>)

generate_filter_complex(clips, unique_sources, main_volume, has_bg_music) ==
    IF clips = <<>> THEN <<>>
    ELSE [i \in 1..Len(clips) |-> ClipStage(i - 1, clips[i], unique_sources, has_bg_music)]
         \o <<MixStage(Len(clips), main_volume)>>

(* --------------------- building the timeline session ------------------- *)
\* flattening of the tracks into ClipWithVolume, track by track
RECURSIVE AllClips(_)
AllClips(tracks) ==
    IF tracks = <<>> THEN <<>>
    ELSE LET track == Head(tracks)
         IN  [i \in 1..Len(track.clips) |->
                 [clip |-> track.clips[i], track_volume |-> track.volume]]
             \o AllClips(Tail(tracks))

RECURSIVE UniqueFrom(_, _)
UniqueFrom(clips, unique_sources) ==
    IF clips = <<>> THEN unique_sources
    ELSE LET src == Head(clips).clip.source_file
         IN  UniqueFrom(Tail(clips),
                        IF \E i \in 1..Len(unique_sources) : unique_sources[i] = src
                        THEN unique_sources
                        ELSE Append(unique_sources, src))

UniqueSources(all_clips) == UniqueFrom(all_clips, <<>>)

VideoFilter(background_style) ==
    CASE background_style = "cover"   -> "scale=increase,crop"
      [] background_style = "contain" -> "scale=decrease,pad"
      [] background_style = "repeat"  -> "tile=2x2"
      [] background_style = "center"  -> "scale=decrease,pad"
      [] OTHER                        -> "scale=increase,crop"

\* i32 percent as f64 / 100.0, in hundredths
VolumeOf(percent) == percent

BgMusicStage(bg_volume) ==
    Stage(<<InputPad(1)>>,
          <<Filter("aloop", <<>>, <<"loop=-1", "size=2e+09">>),
            Filter("volume", <<Num("", bg_volume)>>, <<>>)>>,
          <<Lbl("bgmusic", -1)>>)

FinalMixStage ==
    Stage(<<Lbl("aout", -1), Lbl("bgmusic", -1)>>,
          <<Filter("amix", <<Num("inputs", 2), Num("dropout_transition", 2)>>, <<"duration=first">>)>>,
          <<Lbl("final", -1)>>)

AudioFilter(all_clips, unique_sources, main_volume, has_bg_music, bg_music_volume) ==
    LET audio_filter == generate_filter_complex(all_clips, unique_sources, main_volume, has_bg_music)
    IN  IF has_bg_music
        THEN audio_filter \o <<BgMusicStage(VolumeOf(bg_music_volume)), FinalMixStage>>
        ELSE audio_filter

\* variant: the output is always mapped from [aout]
AudioOutputLabelAout(has_bg_music) == Lbl("aout", -1)

AudioOutputLabel(has_bg_music) == IF has_bg_music THEN Lbl("final", -1) ELSE Lbl("aout", -1)

\* cmd.input(..) calls in order: image, optional music, each unique source
CmdInputs(image_path, bg_music_path, unique_sources) ==
    <<image_path>> \o (IF bg_music_path.some THEN <<bg_music_path.val>> ELSE <<>>)
    \o unique_sources

\* variant: the total is the sum of the clip ends
RECURSIVE TotalDurationSum(_)
TotalDurationSum(all_clips) ==
    IF all_clips = <<>> THEN 0
    ELSE Head(all_clips).clip.start_time + Head(all_clips).clip.duration
         + TotalDurationSum(Tail(all_clips))

\* fold(0.0, f64::max) over start_time + duration
RECURSIVE TotalDuration(_)
TotalDuration(all_clips) ==
    IF all_clips = <<>> THEN 0
    ELSE Max2(TotalDuration(SubSeq(all_clips, 1, Len(all_clips) - 1)),
              all_clips[Len(all_clips)].clip.start_time
              + all_clips[Len(all_clips)].clip.duration)

\* everything the command derives between validation and spawn
BuildSession(a) ==
    LET all_clips      == AllClips(a.timeline)
        audio_dir      == PathParent(all_clips[1].clip.source_file).val
        output_path    == PathJoin(audio_dir, OutputName(a.output_filename))
        has_bg_music   == a.bg_music_path.some
        unique_sources == UniqueSources(all_clips)
        audio_filter   == AudioFilter(all_clips, unique_sources, VolumeOf(a.main_audio_volume),
                                      has_bg_music, a.bg_music_volume)
    IN  [built              |-> TRUE,
         all_clips          |-> all_clips,
         unique_sources     |-> unique_sources,
         has_bg_music       |-> has_bg_music,
         video_filter       |-> VideoFilter(a.background_style),
         audio_filter       |-> audio_filter,
         audio_output_label |-> AudioOutputLabel(has_bg_music),
         inputs             |-> CmdInputs(a.image_path, a.bg_music_path, unique_sources),
         output_path        |-> output_path]

\* (current_time / total_duration * 100.0).min(100.0) as a fraction;
\* current_time is in text ticks, total_duration in clip ticks
ProgressPct(current_time, total_duration) ==
    IF total_duration > 0
    THEN LET n == current_time * (ClipTicksPerSec \div TicksPerSec) * 100
         IN  IF n <= 100 * total_duration THEN Frac(n, total_duration)
             ELSE Frac(100, 1)
    ELSE Frac(0, 1)

(* ------------------------------- state -------------------------------- *)
VARIABLES
    pc,        \* position of the running command
    args,      \* arguments of the command being run
    installed, \* is the encoder binary present on this machine
    files,     \* files created by the command so far
    fsops,     \* file-system calls made so far, in order
    procs,     \* subprocesses spawned so far, in order
    sess,      \* values derived by the command (clips, inputs, graph, ...)
    trace,     \* supervisor steps taken on the child process, in order
    emitted,   \* ExportProgress samples handed to app.emit, in order
    stderr,    \* error context written with eprintln!
    result     \* what the command returned

vars == <<pc, args, installed, files, fsops, procs, sess, trace, emitted, stderr, result>>

NoResult == [kind |-> "none"]
NoSess == [built |-> FALSE]

Quiet ==
    /\ files = {}
    /\ fsops = <<>>
    /\ procs = <<>>
    /\ sess = NoSess
    /\ trace = <<>>
    /\ emitted = <<>>
    /\ stderr = <<>>
    /\ result = NoResult

(* ------------------------------- inputs -------------------------------- *)
SeqsUpTo(S, n) == UNION {[1..k -> S] : k \in 0..n}

SrcA == Path(TRUE, <<<<"m">>, <<"a">>>>)
SrcB == Path(TRUE, <<<<"m">>, <<"b">>>>)
SrcC == Path(TRUE, <<<<"n">>, <<"c">>>>)
NoPath == Path(FALSE, <<>>)
ImagePath == Path(TRUE, <<<<"i">>>>)
MusicPath == Path(TRUE, <<<<"z">>>>)
FfmpegBinary == Path(FALSE, <<<<"ffmpeg">>>>)

Clip(src, st, du, ts, te) ==
    [source_file |-> src, start_time |-> st, duration |-> du, trim_start |-> ts, trim_end |-> te]

\* clip times in clip ticks: 50000 = 5 s, 12345 = 1.2345 s, -15 = -1.5 ms
GraphClips ==
    { Clip(SrcA, 0, 50000, 20000, 70000),
      Clip(SrcA, 12345, 50000, 0, 90000),
      Clip(SrcB, -15, 0, 10000, 0) }

SessionClips ==
    { Clip(SrcA, 0, 50000, 20000, 70000),
      Clip(SrcB, 0, 0, 0, 0),
      Clip(NoPath, 0, 10000, 0, 10000) }

\* the track at position t plays at 100 / t percent
TrackVolume(t) == 100 \div t

Tracks(clipLists) ==
    [t \in 1..Len(clipLists) |-> [clips |-> clipLists[t], volume |-> TrackVolume(t)]]

\* every timeline of up to maxTracks tracks of up to maxClips clips each
Timelines(clips, maxClips, maxTracks) ==
    {Tracks(cl) : cl \in SeqsUpTo(SeqsUpTo(clips, maxClips), maxTracks)}

TimelineArgs(timelines, looks) ==
    {[cmd               |-> "timeline",
      image_path        |-> ImagePath,
      timeline          |-> tl,
      background_style  |-> look.style,
      bg_music_path     |-> look.music,
      bg_music_volume   |-> 50,
      main_audio_volume |-> 80,
      output_filename   |-> look.name] : tl \in timelines, look \in looks}

GraphArgs ==
    TimelineArgs(Timelines(GraphClips, MaxClips, MaxTracks),
                 {[style |-> "cover", music |-> m, name |-> None] :
                     m \in {None, Some(MusicPath), Some(SrcA)}})

\* sessions of one-clip tracks, and one of a track with two clips ending at 5 s and 7.5 s
SessionTimelines ==
    Timelines(SessionClips, 1, SessMaxTracks)
    \cup {Tracks(<< <<Clip(SrcA, 0, 50000, 20000, 70000), Clip(SrcB, 25000, 50000, 0, 50000)>> >>)}

SessionArgs ==
    TimelineArgs(SessionTimelines,
                 {[style |-> "cover", music |-> None, name |-> None],
                  [style |-> "center", music |-> Some(MusicPath),
                   name |-> Some(<<" ", "a", "/", "b", ".", "M", "P", "4">>)]})

\* time texts of the encoder's progress blocks: 2 s, 7 s, and one without a number
ProgressTexts ==
    { <<"0", ":", "0", ":", "2">>, <<"7">>, <<"N", "/", "A">> }

(* ------------------------ encoder acquisition -------------------------- *)
Err(msg, context) == [kind |-> "Err", msg |-> msg, context |-> context]
Ok(val) == [kind |-> "Ok", val |-> val]
Ctx(key, val) == [key |-> key, val |-> val]

AfterAcquire == IF pc = "t_start" THEN "t_acquired" ELSE "l_acquired"

\* auto_download(): the binary is already there
AcquirePresent ==
    /\ pc \in {"t_start", "l_start"}
    /\ installed
    /\ pc' = AfterAcquire
    /\ UNCHANGED <<args, installed, files, fsops, procs, sess, trace, emitted, stderr, result>>

\* auto_download(): the binary is missing and is fetched
AcquireDownload ==
    /\ pc \in {"t_start", "l_start"}
    /\ ~installed
    /\ installed' = TRUE
    /\ files' = files \cup {FfmpegBinary}
    /\ pc' = AfterAcquire
    /\ UNCHANGED <<args, fsops, procs, sess, trace, emitted, stderr, result>>

\* auto_download(): the binary is missing and cannot be fetched
AcquireFail ==
    /\ pc \in {"t_start", "l_start"}
    /\ ~installed
    /\ result' = Err("Failed to download FFmpeg: ", <<Ctx("cause", "download")>>)
    /\ pc' = "done"
    /\ UNCHANGED <<args, installed, files, fsops, procs, sess, trace, emitted, stderr>>

(* ---------------------- convert_timeline_to_video ---------------------- *)
\* variant: the emptiness check comes after the spawn
TRejectEmptyAfterSpawn ==
    /\ pc = "t_acquired"
    /\ AllClips(args.timeline) = <<>>
    /\ procs' = Append(procs, [kind |-> "encode"])
    /\ result' = Err("No audio clips in timeline", <<>>)
    /\ pc' = "done"
    /\ UNCHANGED <<args, installed, files, fsops, sess, trace, emitted, stderr>>

TRejectEmpty ==
    /\ pc = "t_acquired"
    /\ AllClips(args.timeline) = <<>>
    /\ result' = Err("No audio clips in timeline", <<>>)
    /\ pc' = "done"
    /\ UNCHANGED <<args, installed, files, fsops, procs, sess, trace, emitted, stderr>>

TRejectDir ==
    /\ pc = "t_acquired"
    /\ AllClips(args.timeline) /= <<>>
    /\ ~PathParent(AllClips(args.timeline)[1].clip.source_file).some
    /\ result' = Err("Could not determine audio directory", <<>>)
    /\ pc' = "done"
    /\ UNCHANGED <<args, installed, files, fsops, procs, sess, trace, emitted, stderr>>

\* from the output path to the assembled command
TBuild ==
    /\ pc = "t_acquired"
    /\ AllClips(args.timeline) /= <<>>
    /\ PathParent(AllClips(args.timeline)[1].clip.source_file).some
    /\ sess' = BuildSession(args)
    /\ pc' = IF LookupPanics(sess'.all_clips, sess'.unique_sources) THEN "panicked" ELSE "t_built"
    /\ UNCHANGED <<args, installed, files, fsops, procs, trace, emitted, stderr, result>>

EncodeCmd ==
    [kind           |-> "encode",
     pre            |-> <<"-loop", "1">>,
     inputs         |-> sess.inputs,
     vf             |-> sess.video_filter,
     filter_complex |-> sess.audio_filter,
     maps           |-> <<Lbl("0:v", -1), sess.audio_output_label>>,
     progress       |-> "pipe:1",
     overwrite      |-> TRUE,
     output         |-> sess.output_path]

\* variant: a failed spawn is tried again
TSpawnFailRetry ==
    /\ pc = "t_built"
    /\ trace' = Append(trace, "spawn_failed")
    /\ UNCHANGED <<pc, args, installed, files, fsops, procs, sess, emitted, stderr, result>>

TSpawnFail ==
    /\ pc = "t_built"
    /\ trace' = Append(trace, "spawn_failed")
    /\ result' = Err("Failed to spawn FFmpeg: ", <<Ctx("cause", "spawn")>>)
    /\ pc' = "done"
    /\ UNCHANGED <<args, installed, files, fsops, procs, sess, emitted, stderr>>

\* cmd.spawn() succeeds; the total duration is computed right after
TSpawn ==
    /\ pc = "t_built"
    /\ procs' = Append(procs, EncodeCmd)
    /\ trace' = Append(trace, "spawn")
    /\ sess' = [total_duration |-> TotalDuration(sess.all_clips)] @@ sess
    /\ pc' = "t_spawned"
    /\ UNCHANGED <<args, installed, files, fsops, emitted, stderr, result>>

TIterFail ==
    /\ pc = "t_spawned"
    /\ trace' = Append(trace, "iter_failed")
    /\ result' = Err("Failed to get FFmpeg iterator: ", <<Ctx("cause", "iter")>>)
    /\ pc' = "done"
    /\ UNCHANGED <<args, installed, files, fsops, procs, sess, emitted, stderr>>

TIter ==
    /\ pc = "t_spawned"
    /\ trace' = Append(trace, "iter")
    /\ pc' = "t_streaming"
    /\ UNCHANGED <<args, installed, files, fsops, procs, sess, emitted, stderr, result>>

EventsSeen == Cardinality({i \in 1..Len(trace) : trace[i] \in {"progress", "log", "error", "other"}})

\* variant: a sample that could not be emitted ends the session with an error
TEventProgressEmitOrFail ==
    /\ pc = "t_streaming"
    /\ EventsSeen < MaxEvents
    /\ \E time \in ProgressTexts, frame \in {10}, delivered \in BOOLEAN :
          LET current_time == parse_time_to_seconds(time)
              progress_pct == ProgressPct(current_time, sess.total_duration)
          IN  /\ emitted' = Append(emitted, [frame |-> frame, fps |-> 25, time |-> time,
                                             progress |-> progress_pct, delivered |-> delivered])
              /\ pc' = IF delivered THEN pc ELSE "done"
              /\ result' = IF delivered THEN result
                           ELSE Err("Failed to emit progress: ", <<Ctx("cause", "emit")>>)
    /\ trace' = Append(trace, "progress")
    /\ UNCHANGED <<args, installed, files, fsops, procs, sess, stderr>>

\* FfmpegEvent::Progress: compute the percent and hand the sample to app.emit,
\* whose outcome is dropped
TEventProgress ==
    /\ pc = "t_streaming"
    /\ EventsSeen < MaxEvents
    /\ \E time \in ProgressTexts, frame \in {10}, delivered \in BOOLEAN :
          LET current_time == parse_time_to_seconds(time)
              progress_pct == ProgressPct(current_time, sess.total_duration)
          IN  emitted' = Append(emitted, [frame |-> frame, fps |-> 25, time |-> time,
                                          progress |-> progress_pct, delivered |-> delivered])
    /\ trace' = Append(trace, "progress")
    /\ UNCHANGED <<pc, args, installed, files, fsops, procs, sess, stderr, result>>

\* FfmpegEvent::Log: printed
TEventLog ==
    /\ pc = "t_streaming"
    /\ EventsSeen < MaxEvents
    /\ trace' = Append(trace, "log")
    /\ UNCHANGED <<pc, args, installed, files, fsops, procs, sess, emitted, stderr, result>>

\* FfmpegEvent::Error falls into the `_ => {}` arm
TEventError ==
    /\ pc = "t_streaming"
    /\ EventsSeen < MaxEvents
    /\ trace' = Append(trace, "error")
    /\ UNCHANGED <<pc, args, installed, files, fsops, procs, sess, emitted, stderr, result>>

\* every other event falls into the `_ => {}` arm
TEventOther ==
    /\ pc = "t_streaming"
    /\ EventsSeen < MaxEvents
    /\ trace' = Append(trace, "other")
    /\ UNCHANGED <<pc, args, installed, files, fsops, procs, sess, emitted, stderr, result>>

\* the iterator is exhausted
TStreamEnd ==
    /\ pc = "t_streaming"
    /\ trace' = Append(trace, "eof")
    /\ pc' = "t_drained"
    /\ UNCHANGED <<args, installed, files, fsops, procs, sess, emitted, stderr, result>>

TWaitError ==
    /\ pc = "t_drained"
    /\ trace' = Append(trace, "wait_failed")
    /\ result' = Err("Failed to execute FFmpeg: ", <<Ctx("cause", "wait")>>)
    /\ pc' = "done"
    /\ UNCHANGED <<args, installed, files, fsops, procs, sess, emitted, stderr>>

\* the child exited with a non-success status: the context is printed, the
\* fixed message is returned
TExitFailure ==
    /\ pc = "t_drained"
    /\ \E code \in {1}, partial \in BOOLEAN :
          /\ stderr' = Append(stderr, [image          |-> args.image_path,
                                       audio_sources  |-> sess.unique_sources,
                                       video_filter   |-> sess.video_filter,
                                       audio_filter   |-> sess.audio_filter,
                                       has_bg_music   |-> sess.has_bg_music,
                                       exit_code      |-> code])
          /\ files' = IF partial THEN files \cup {sess.output_path} ELSE files
    /\ trace' = Append(trace, "exit_failure")
    /\ result' = Err("FFmpeg encoding failed", <<>>)
    /\ pc' = "done"
    /\ UNCHANGED <<args, installed, fsops, procs, sess, emitted>>

\* variant: success is reported while the stream is still being read
TExitSuccessUndrained ==
    /\ pc \in {"t_streaming", "t_drained"}
    /\ files' = files \cup {sess.output_path}
    /\ trace' = Append(trace, "exit_success")
    /\ result' = Ok(sess.output_path)
    /\ pc' = "done"
    /\ UNCHANGED <<args, installed, fsops, procs, sess, emitted, stderr>>

TExitSuccess ==
    /\ pc = "t_drained"
    /\ files' = files \cup {sess.output_path}
    /\ trace' = Append(trace, "exit_success")
    /\ result' = Ok(sess.output_path)
    /\ pc' = "done"
    /\ UNCHANGED <<args, installed, fsops, procs, sess, emitted, stderr>>

TimelineNext ==
    \/ TRejectEmpty \/ TRejectDir \/ TBuild
    \/ TSpawnFail \/ TSpawn \/ TIterFail \/ TIter
    \/ TEventProgress \/ TEventLog \/ TEventError \/ TEventOther \/ TStreamEnd
    \/ TWaitError \/ TExitFailure \/ TExitSuccess

(* --------------------------- convert_to_video -------------------------- *)
LegacyArgs ==
    {[cmd               |-> "legacy",
      image_path        |-> ImagePath,
      audio_paths       |-> ps,
      background_style  |-> "cover",
      bg_music_path     |-> m,
      bg_music_volume   |-> 50,
      main_audio_volume |-> 80] : ps \in SeqsUpTo({SrcA, SrcB, NoPath}, MaxAudio),
                                  m \in {None, Some(MusicPath)}}

ConcatListName == <<"concat_list.txt">>
TempAudioName == <<"temp_combined.mp3">>
LegacyOutputName == <<"output.mp4">>

FsOp(op, file, ok) == [op |-> op, file |-> file, ok |-> ok]

LegacyDir(a) == PathParent(a.audio_paths[1])

LRejectNoAudio ==
    /\ pc = "l_acquired"
    /\ args.audio_paths = <<>>
    /\ result' = Err("No audio files provided", <<>>)
    /\ pc' = "done"
    /\ UNCHANGED <<args, installed, files, fsops, procs, sess, trace, emitted, stderr>>

LRejectDir ==
    /\ pc = "l_acquired"
    /\ args.audio_paths /= <<>>
    /\ ~LegacyDir(args).some
    /\ result' = Err("Could not determine audio directory", <<>>)
    /\ pc' = "done"
    /\ UNCHANGED <<args, installed, files, fsops, procs, sess, trace, emitted, stderr>>

\* variant: the transient files live in one fixed directory
LegacySessionSharedTemp(a, final_audio_path) ==
    [built            |-> TRUE,
     audio_dir        |-> LegacyDir(a).val,
     output_path      |-> PathJoin(LegacyDir(a).val, LegacyOutputName),
     concat_list_path |-> PathJoin(Path(TRUE, << <<"t", "m", "p">> >>), ConcatListName),
     temp_audio       |-> PathJoin(Path(TRUE, << <<"t", "m", "p">> >>), TempAudioName),
     final_audio_path |-> PathJoin(Path(TRUE, << <<"t", "m", "p">> >>), TempAudioName)]

LegacySession(a, final_audio_path) ==
    [built            |-> TRUE,
     audio_dir        |-> LegacyDir(a).val,
     output_path      |-> PathJoin(LegacyDir(a).val, LegacyOutputName),
     concat_list_path |-> PathJoin(LegacyDir(a).val, ConcatListName),
     temp_audio       |-> PathJoin(LegacyDir(a).val, TempAudioName),
     final_audio_path |-> final_audio_path]

\* a single audio file is used as it is
LSingle ==
    /\ pc = "l_acquired"
    /\ Len(args.audio_paths) = 1
    /\ LegacyDir(args).some
    /\ sess' = LegacySession(args, args.audio_paths[1])
    /\ pc' = "l_encode"
    /\ UNCHANGED <<args, installed, files, fsops, procs, trace, emitted, stderr, result>>

\* std::fs::write of the concat list fails
LWriteListFail ==
    /\ pc = "l_acquired"
    /\ Len(args.audio_paths) > 1
    /\ LegacyDir(args).some
    /\ fsops' = Append(fsops, FsOp("write", PathJoin(LegacyDir(args).val, ConcatListName), FALSE))
    /\ result' = Err("Failed to create concat list: ", <<Ctx("cause", "write")>>)
    /\ pc' = "done"
    /\ UNCHANGED <<args, installed, files, procs, sess, trace, emitted, stderr>>

LWriteList ==
    /\ pc = "l_acquired"
    /\ Len(args.audio_paths) > 1
    /\ LegacyDir(args).some
    /\ sess' = LegacySession(args, PathJoin(LegacyDir(args).val, TempAudioName))
    /\ fsops' = Append(fsops, FsOp("write", sess'.concat_list_path, TRUE))
    /\ files' = files \cup {sess'.concat_list_path}
    /\ pc' = "l_listed"
    /\ UNCHANGED <<args, installed, procs, trace, emitted, stderr, result>>

ConcatCmd ==
    [kind      |-> "concat",
     format    |-> "concat",
     inputs    |-> <<sess.concat_list_path>>,
     overwrite |-> TRUE,
     output    |-> sess.temp_audio]

LConcatSpawnFail ==
    /\ pc = "l_listed"
    /\ trace' = Append(trace, "concat_spawn_failed")
    /\ result' = Err("Failed to spawn FFmpeg concat: ", <<Ctx("cause", "spawn")>>)
    /\ pc' = "done"
    /\ UNCHANGED <<args, installed, files, fsops, procs, sess, emitted, stderr>>

LConcatSpawn ==
    /\ pc = "l_listed"
    /\ procs' = Append(procs, ConcatCmd)
    /\ trace' = Append(trace, "concat_spawn")
    /\ pc' = "l_concat"
    /\ UNCHANGED <<args, installed, files, fsops, sess, emitted, stderr, result>>

LConcatWaitError ==
    /\ pc = "l_concat"
    /\ trace' = Append(trace, "concat_wait_failed")
    /\ result' = Err("Failed to concatenate audio: ", <<Ctx("cause", "wait")>>)
    /\ pc' = "done"
    /\ UNCHANGED <<args, installed, files, fsops, procs, sess, emitted, stderr>>

LConcatExitFailure ==
    /\ pc = "l_concat"
    /\ \E partial \in BOOLEAN :
          files' = IF partial THEN files \cup {sess.temp_audio} ELSE files
    /\ trace' = Append(trace, "concat_exit_failure")
    /\ result' = Err("FFmpeg concatenation failed", <<>>)
    /\ pc' = "done"
    /\ UNCHANGED <<args, installed, fsops, procs, sess, emitted, stderr>>

\* the concatenation succeeded: the list is removed, the outcome of the removal dropped
LConcatExitSuccess ==
    /\ pc = "l_concat"
    /\ \E removed \in BOOLEAN :
          /\ fsops' = Append(fsops, FsOp("remove", sess.concat_list_path, removed))
          /\ files' = (files \cup {sess.temp_audio})
                      \ (IF removed THEN {sess.concat_list_path} ELSE {})
    /\ trace' = Append(trace, "concat_exit_success")
    /\ pc' = "l_encode"
    /\ UNCHANGED <<args, installed, procs, sess, emitted, stderr, result>>

LegacyMixFilter(bg_volume, main_volume) ==
    << Stage(<<InputPad(1)>>, <<Filter("aloop", <<>>, <<"loop=-1", "size=2e+09">>)>>,
             <<Lbl("bg", -1)>>),
       Stage(<<Lbl("bg", -1)>>, <<Filter("volume", <<Num("", bg_volume)>>, <<>>)>>,
             <<Lbl("bg_vol", -1)>>),
       Stage(<<InputPad(0)>>, <<Filter("volume", <<Num("", main_volume)>>, <<>>)>>,
             <<Lbl("main", -1)>>),
       Stage(<<Lbl("bg_vol", -1), Lbl("main", -1)>>,
             <<Filter("amix", <<Num("inputs", 2), Num("dropout_transition", 2)>>,
                      <<"duration=first">>)>>,
             <<>>) >>

LegacyEncodeCmd ==
    IF args.bg_music_path.some
    THEN [kind           |-> "encode",
          pre            |-> <<"-loop", "1">>,
          inputs         |-> <<args.image_path, args.bg_music_path.val, sess.final_audio_path>>,
          vf             |-> VideoFilter(args.background_style),
          filter_complex |-> LegacyMixFilter(VolumeOf(args.bg_music_volume),
                                             VolumeOf(args.main_audio_volume)),
          af             |-> <<>>,
          overwrite      |-> TRUE,
          output         |-> sess.output_path]
    ELSE [kind           |-> "encode",
          pre            |-> <<"-loop", "1">>,
          inputs         |-> <<args.image_path, sess.final_audio_path>>,
          vf             |-> VideoFilter(args.background_style),
          filter_complex |-> <<>>,
          af             |-> <<Filter("volume", <<Num("", VolumeOf(args.main_audio_volume))>>, <<>>)>>,
          overwrite      |-> TRUE,
          output         |-> sess.output_path]

LEncodeSpawnFail ==
    /\ pc = "l_encode"
    /\ trace' = Append(trace, "spawn_failed")
    /\ result' = Err("Failed to spawn FFmpeg: ", <<Ctx("cause", "spawn")>>)
    /\ pc' = "done"
    /\ UNCHANGED <<args, installed, files, fsops, procs, sess, emitted, stderr>>

LEncodeSpawn ==
    /\ pc = "l_encode"
    /\ procs' = Append(procs, LegacyEncodeCmd)
    /\ trace' = Append(trace, "spawn")
    /\ pc' = "l_encoding"
    /\ UNCHANGED <<args, installed, files, fsops, sess, emitted, stderr, result>>

LEncodeWaitError ==
    /\ pc = "l_encoding"
    /\ trace' = Append(trace, "wait_failed")
    /\ result' = Err("Failed to execute FFmpeg: ", <<Ctx("cause", "wait")>>)
    /\ pc' = "done"
    /\ UNCHANGED <<args, installed, files, fsops, procs, sess, emitted, stderr>>

LEncodeExitFailure ==
    /\ pc = "l_encoding"
    /\ \E partial \in BOOLEAN :
          files' = IF partial THEN files \cup {sess.output_path} ELSE files
    /\ trace' = Append(trace, "exit_failure")
    /\ result' = Err(IF args.bg_music_path.some
                     THEN "FFmpeg encoding failed (with background music)"
                     ELSE "FFmpeg encoding failed (without background music)", <<>>)
    /\ pc' = "done"
    /\ UNCHANGED <<args, installed, fsops, procs, sess, emitted, stderr>>

\* the encode succeeded: the combined audio, if any, is removed, the outcome dropped
LEncodeExitSuccess ==
    /\ pc = "l_encoding"
    /\ \E removed \in BOOLEAN :
          IF Len(args.audio_paths) > 1
          THEN /\ fsops' = Append(fsops, FsOp("remove", sess.temp_audio, removed))
               /\ files' = (files \cup {sess.output_path})
                           \ (IF removed THEN {sess.temp_audio} ELSE {})
          ELSE /\ fsops' = fsops
               /\ files' = files \cup {sess.output_path}
    /\ trace' = Append(trace, "exit_success")
    /\ result' = Ok(sess.output_path)
    /\ pc' = "done"
    /\ UNCHANGED <<args, installed, procs, sess, emitted, stderr>>

LegacyNext ==
    \/ LRejectNoAudio \/ LRejectDir \/ LSingle \/ LWriteListFail \/ LWriteList
    \/ LConcatSpawnFail \/ LConcatSpawn \/ LConcatWaitError
    \/ LConcatExitFailure \/ LConcatExitSuccess
    \/ LEncodeSpawnFail \/ LEncodeSpawn \/ LEncodeWaitError
    \/ LEncodeExitFailure \/ LEncodeExitSuccess

(* ------------------------- one command, one run ------------------------ *)
Init ==
    /\ \/ pc = "t_start" /\ args \in SessionArgs
       \/ pc = "l_start" /\ args \in LegacyArgs
    /\ installed \in BOOLEAN
    /\ Quiet

Next ==
    \/ AcquirePresent \/ AcquireDownload \/ AcquireFail
    \/ TimelineNext
    \/ LegacyNext

Spec == Init /\ [][Next]_vars

(* -------------- the graph compiler on bounded timelines ---------------- *)
InitGraph ==
    /\ pc = "t_acquired"
    /\ args \in GraphArgs
    /\ installed = TRUE
    /\ Quiet

NextGraph == TRejectEmpty \/ TBuild

SpecGraph == InitGraph /\ [][NextGraph]_vars

(* ------------------- the time codec on bounded text -------------------- *)
Alphabet == {"1", "2", ":", ".", "x", "-"}
Texts == UNION {[1..n -> Alphabet] : n \in 0..MaxLen}

InitParse ==
    /\ pc = "parse_call"
    /\ args \in {[time_str |-> t] : t \in Texts}
    /\ installed = TRUE
    /\ Quiet

ParseTime ==
    /\ pc = "parse_call"
    /\ result' = [kind |-> "value", val |-> parse_time_to_seconds(args.time_str)]
    /\ pc' = "parse_done"
    /\ UNCHANGED <<args, installed, files, fsops, procs, sess, trace, emitted, stderr>>

NextParse == ParseTime

SpecParse == InitParse /\ [][NextParse]_vars

(* ------------- two convert_to_video calls on one file system ----------- *)
\* Each variable that belongs to a call is a function of the session; files is
\* the one file system, each file with the session that wrote it last; fsops
\* is the set of accesses made, each with the file's writer at that moment.
Sessions == {1, 2}

ConcAudio == {<<SrcA, SrcB>>, <<SrcB, SrcA>>, <<SrcC, SrcA>>}

ConcArgs ==
    {[cmd               |-> "legacy",
      image_path        |-> ImagePath,
      audio_paths       |-> ps,
      background_style  |-> "cover",
      bg_music_path     |-> None,
      bg_music_volume   |-> 50,
      main_audio_volume |-> 80] : ps \in ConcAudio}

Owner(fs, file) ==
    IF \E e \in fs : e.file = file THEN (CHOOSE e \in fs : e.file = file).by ELSE 0
Put(fs, file, s) == {e \in fs : e.file /= file} \cup {[file |-> file, by |-> s]}
Del(fs, file) == {e \in fs : e.file /= file}
Access(s, op, file) == [by |-> s, op |-> op, file |-> file, owner |-> Owner(files, file)]

Goto(s, to) == pc' = [pc EXCEPT ![s] = to]
Return(s, r) == result' = [result EXCEPT ![s] = r] /\ Goto(s, "done")

InitConc ==
    /\ pc = [s \in Sessions |-> "l_acquired"]
    /\ args \in [Sessions -> ConcArgs]
    /\ installed = TRUE
    /\ files = {}
    /\ fsops = {}
    /\ procs = [s \in Sessions |-> <<>>]
    /\ sess = [s \in Sessions |-> NoSess]
    /\ trace = <<>>
    /\ emitted = <<>>
    /\ stderr = <<>>
    /\ result = [s \in Sessions |-> NoResult]

CWriteListFail(s) ==
    /\ pc[s] = "l_acquired"
    /\ Return(s, Err("Failed to create concat list: ", <<Ctx("cause", "write")>>))
    /\ UNCHANGED <<args, installed, files, fsops, procs, sess, trace, emitted, stderr>>

\* std::fs::write creates the list or replaces the one that is there
CWriteList(s) ==
    /\ pc[s] = "l_acquired"
    /\ sess' = [sess EXCEPT ![s] = LegacySession(args[s], PathJoin(LegacyDir(args[s]).val, TempAudioName))]
    /\ fsops' = fsops \cup {Access(s, "write", sess'[s].concat_list_path)}
    /\ files' = Put(files, sess'[s].concat_list_path, s)
    /\ Goto(s, "l_listed")
    /\ UNCHANGED <<args, installed, procs, trace, emitted, stderr, result>>

CConcatCmd(s) ==
    [kind      |-> "concat",
     format    |-> "concat",
     inputs    |-> <<sess[s].concat_list_path>>,
     overwrite |-> TRUE,
     output    |-> sess[s].temp_audio]

CConcatSpawnFail(s) ==
    /\ pc[s] = "l_listed"
    /\ Return(s, Err("Failed to spawn FFmpeg concat: ", <<Ctx("cause", "spawn")>>))
    /\ UNCHANGED <<args, installed, files, fsops, procs, sess, trace, emitted, stderr>>

CConcatSpawn(s) ==
    /\ pc[s] = "l_listed"
    /\ procs' = [procs EXCEPT ![s] = Append(@, CConcatCmd(s))]
    /\ Goto(s, "l_concat")
    /\ UNCHANGED <<args, installed, files, fsops, sess, trace, emitted, stderr, result>>

\* the concat child reads its input, the list, and writes its output over
\* whatever is there (overwrite)
CConcatRun(s) ==
    /\ pc[s] = "l_concat"
    /\ Owner(files, CConcatCmd(s).inputs[1]) /= 0
    /\ fsops' = fsops \cup {Access(s, "read", CConcatCmd(s).inputs[1]),
                            Access(s, "write", CConcatCmd(s).output)}
    /\ files' = Put(files, CConcatCmd(s).output, s)
    /\ Goto(s, "l_concat_ran")
    /\ UNCHANGED <<args, installed, procs, sess, trace, emitted, stderr, result>>

CConcatWaitError(s) ==
    /\ pc[s] \in {"l_concat", "l_concat_ran"}
    /\ Return(s, Err("Failed to concatenate audio: ", <<Ctx("cause", "wait")>>))
    /\ UNCHANGED <<args, installed, files, fsops, procs, sess, trace, emitted, stderr>>

CConcatExitFailure(s) ==
    /\ pc[s] \in {"l_concat", "l_concat_ran"}
    /\ Return(s, Err("FFmpeg concatenation failed", <<>>))
    /\ UNCHANGED <<args, installed, files, fsops, procs, sess, trace, emitted, stderr>>

\* the concatenation succeeded: remove_file on the list, its outcome dropped
CConcatExitSuccess(s) ==
    /\ pc[s] = "l_concat_ran"
    /\ fsops' = fsops \cup {Access(s, "remove", sess[s].concat_list_path)}
    /\ \E removed \in BOOLEAN :
          /\ removed => Owner(files, sess[s].concat_list_path) /= 0
          /\ files' = IF removed THEN Del(files, sess[s].concat_list_path) ELSE files
    /\ Goto(s, "l_encode")
    /\ UNCHANGED <<args, installed, procs, sess, trace, emitted, stderr, result>>

CEncodeCmd(s) ==
    [kind           |-> "encode",
     pre            |-> <<"-loop", "1">>,
     inputs         |-> <<args[s].image_path, sess[s].final_audio_path>>,
     vf             |-> VideoFilter(args[s].background_style),
     filter_complex |-> <<>>,
     af             |-> <<Filter("volume", <<Num("", VolumeOf(args[s].main_audio_volume))>>, <<>>)>>,
     overwrite      |-> TRUE,
     output         |-> sess[s].output_path]

CEncodeSpawnFail(s) ==
    /\ pc[s] = "l_encode"
    /\ Return(s, Err("Failed to spawn FFmpeg: ", <<Ctx("cause", "spawn")>>))
    /\ UNCHANGED <<args, installed, files, fsops, procs, sess, trace, emitted, stderr>>

CEncodeSpawn(s) ==
    /\ pc[s] = "l_encode"
    /\ procs' = [procs EXCEPT ![s] = Append(@, CEncodeCmd(s))]
    /\ Goto(s, "l_encoding")
    /\ UNCHANGED <<args, installed, files, fsops, sess, trace, emitted, stderr, result>>

\* the encode child reads its audio input, the combined audio
CEncodeRun(s) ==
    /\ pc[s] = "l_encoding"
    /\ Owner(files, CEncodeCmd(s).inputs[2]) /= 0
    /\ fsops' = fsops \cup {Access(s, "read", CEncodeCmd(s).inputs[2])}
    /\ Goto(s, "l_encoding_ran")
    /\ UNCHANGED <<args, installed, files, procs, sess, trace, emitted, stderr, result>>

CEncodeWaitError(s) ==
    /\ pc[s] \in {"l_encoding", "l_encoding_ran"}
    /\ Return(s, Err("Failed to execute FFmpeg: ", <<Ctx("cause", "wait")>>))
    /\ UNCHANGED <<args, installed, files, fsops, procs, sess, trace, emitted, stderr>>

CEncodeExitFailure(s) ==
    /\ pc[s] \in {"l_encoding", "l_encoding_ran"}
    /\ Return(s, Err("FFmpeg encoding failed (without background music)", <<>>))
    /\ UNCHANGED <<args, installed, files, fsops, procs, sess, trace, emitted, stderr>>

\* the encode succeeded: remove_file on the combined audio, its outcome dropped
CEncodeExitSuccess(s) ==
    /\ pc[s] = "l_encoding_ran"
    /\ fsops' = fsops \cup {Access(s, "remove", sess[s].temp_audio)}
    /\ \E removed \in BOOLEAN :
          /\ removed => Owner(files, sess[s].temp_audio) /= 0
          /\ files' = IF removed THEN Del(files, sess[s].temp_audio) ELSE files
    /\ Return(s, Ok(sess[s].output_path))
    /\ UNCHANGED <<args, installed, procs, sess, trace, emitted, stderr>>

NextConc ==
    \E s \in Sessions :
        \/ CWriteListFail(s) \/ CWriteList(s)
        \/ CConcatSpawnFail(s) \/ CConcatSpawn(s) \/ CConcatRun(s)
        \/ CConcatWaitError(s) \/ CConcatExitFailure(s) \/ CConcatExitSuccess(s)
        \/ CEncodeSpawnFail(s) \/ CEncodeSpawn(s) \/ CEncodeRun(s)
        \/ CEncodeWaitError(s) \/ CEncodeExitFailure(s) \/ CEncodeExitSuccess(s)

SpecConc == InitConc /\ [][NextConc]_vars

(* --------------- the clip-graph compiler on bounded lists -------------- *)
\* the flattened clips of every bounded timeline, the empty list among them,
\* with the unique sources the caller derives from them
CompileArgs ==
    {[clips          |-> AllClips(tl),
      unique_sources |-> UniqueSources(AllClips(tl)),
      main_volume    |-> VolumeOf(80),
      has_bg_music   |-> b] : tl \in Timelines(GraphClips, MaxClips, MaxTracks), b \in BOOLEAN}

InitCompile ==
    /\ pc = "compile_call"
    /\ args \in CompileArgs
    /\ installed = TRUE
    /\ Quiet

CompileGraph ==
    /\ pc = "compile_call"
    /\ result' = [kind |-> "value",
                  val  |-> generate_filter_complex(args.clips, args.unique_sources,
                                                   args.main_volume, args.has_bg_music)]
    /\ pc' = "compile_done"
    /\ UNCHANGED <<args, installed, files, fsops, procs, sess, trace, emitted, stderr>>

NextCompile == CompileGraph

SpecCompile == InitCompile /\ [][NextCompile]_vars

(* ------------------ the output name on bounded names ------------------- *)
NameAlphabet == {"a", "/", " ", ".", "m", "P", "4"}

\* every name over the alphabet, every unsafe character alone and inside a
\* name, and an upper-case extension
Names ==
    UNION {[1..n -> NameAlphabet] : n \in 0..MaxNameLen}
    \cup {<<c>> : c \in UnsafeChars}
    \cup {<<"a", c, "b">> : c \in UnsafeChars}
    \cup {<<"a", ".", "M", "P", "4">>, <<" ", "a", ":", ".", "M", "p", "4", " ">>}

InitName ==
    /\ pc = "name_call"
    /\ args \in {[output_filename |-> f] : f \in {None} \cup {Some(n) : n \in Names}}
    /\ installed = TRUE
    /\ Quiet

SanitizeName ==
    /\ pc = "name_call"
    /\ result' = [kind |-> "value", val |-> OutputName(args.output_filename)]
    /\ pc' = "name_done"
    /\ UNCHANGED <<args, installed, files, fsops, procs, sess, trace, emitted, stderr>>

NextName == SanitizeName

SpecName == InitName /\ [][NextName]_vars

(* ====================== properties of the time codec =================== *)
ColonsAt(t) == {i \in 1..Len(t) : t[i] = ":"}
NumOrZero(p) == IF ParseF64(p).ok THEN ParseF64(p).val ELSE 0

\* C10: parse_time_to_seconds returns H*3600+M*60+S for a three-part text
\* H:M:S (a part that is not a number counting as 0), the parsed decimal for a
\* text without a colon (0 when it is not a number), and 0 for every other
\* number of parts; it returns a value for every text.
C10_ParseByShape ==
    pc = "parse_done" =>
        LET t  == args.time_str
            cs == ColonsAt(t)
        IN  /\ result.kind = "value"
            /\ result.val \in Int
            /\ cs = {} => result.val = NumOrZero(t)
            /\ Cardinality(cs) = 2 =>
                  \E i \in cs, j \in cs :
                     /\ i < j
                     /\ result.val = NumOrZero(SubSeq(t, 1, i - 1)) * 3600
                                     + NumOrZero(SubSeq(t, i + 1, j - 1)) * 60
                                     + NumOrZero(SubSeq(t, j + 1, Len(t)))
            /\ Cardinality(cs) \notin {0, 2} => result.val = 0

\* a three-part text with a non-numeric part whose other parts still count
C10_Witness ==
    /\ pc = "parse_done"
    /\ args.time_str = <<"x", ":", "1", ":", "2">>
    /\ result.val = 62 * TicksPerSec


(* ===================== properties of the two commands ================== *)
IsTimeline == args.cmd = "timeline"
IsLegacy == args.cmd = "legacy"
Returned == pc = "done"

\* the call carries nothing to encode: no clip in any track, or no audio path
NothingToEncode ==
    \/ IsTimeline /\ \A t \in 1..Len(args.timeline) : Len(args.timeline[t].clips) = 0
    \/ IsLegacy /\ Len(args.audio_paths) = 0

\* C1 as stated: a call with nothing to encode returns an error, spawns no
\* subprocess and creates no file at all between call and return.
C1_NoFileAtAll ==
    NothingToEncode =>
        /\ procs = <<>>
        /\ trace = <<>>
        /\ fsops = <<>>
        /\ files = {}
        /\ Returned => result.kind = "Err"

\* C1 amended: a call with nothing to encode returns an error, spawns no
\* subprocess, makes no file-system call of its own and creates no output or
\* transient file; the one file that can appear is the encoder binary fetched
\* by the acquisition step, which runs before the validation.
C1_NoSubprocessNoSessionFile ==
    NothingToEncode =>
        /\ procs = <<>>
        /\ trace = <<>>
        /\ fsops = <<>>
        /\ files \subseteq {FfmpegBinary}
        /\ Returned => result.kind = "Err"

\* a timeline of one track without clips was rejected after the binary was fetched
C1_Witness ==
    /\ Returned
    /\ IsTimeline
    /\ Len(args.timeline) = 1
    /\ NothingToEncode
    /\ result = Err("No audio clips in timeline", <<>>)
    /\ files = {FfmpegBinary}

Spawned == \E i \in 1..Len(trace) : trace[i] = "spawn"

State ==
    CASE result.kind = "Ok"  -> "Succeeded"
      [] result.kind = "Err" -> "Failed"
      [] Spawned             -> "Running"
      [] OTHER               -> "NotStarted"

StreamSteps == {"progress", "log", "error", "other"}

\* the run behind an Ok: spawn, the stream read to its end, then a success status
DrainedThenSuccess ==
    /\ Len(trace) >= 4
    /\ trace[1] = "spawn"
    /\ trace[2] = "iter"
    /\ \A i \in 3..(Len(trace) - 2) : trace[i] \in StreamSteps
    /\ trace[Len(trace) - 1] = "eof"
    /\ trace[Len(trace)] = "exit_success"
    /\ Len(procs) = 1

LifecycleStep ==
    IsTimeline =>
        /\ State \in {"Succeeded", "Failed"} => UNCHANGED vars
        /\ State = "NotStarted" => State' \in {"NotStarted", "Running", "Failed"}
        /\ State = "Running" => State' \in {"Running", "Succeeded", "Failed"}
        /\ State' = "Succeeded" => State \in {"Running", "Succeeded"}

\* C2: a timeline session moves NotStarted -> Running -> {Succeeded, Failed};
\* Ok(output path) is returned only after the encoder was spawned, its event
\* stream was read to the end and the wait then reported success; nothing
\* changes once the session is Succeeded or Failed.
C2_Lifecycle ==
    /\ [](IsTimeline /\ result.kind = "Ok" =>
              DrainedThenSuccess /\ result.val = procs[1].output)
    /\ [][LifecycleStep]_vars

\* a session that saw events and then succeeded
C2_Witness ==
    /\ IsTimeline
    /\ State = "Succeeded"
    /\ \E i \in 1..Len(trace) : trace[i] = "progress"

\* C3: a timeline session whose stream delivered an error event, or whose
\* child exited with a non-success status, returns Err and never Ok.
C3_StreamErrorFails ==
    (/\ IsTimeline
     /\ Returned
     /\ \E i \in 1..Len(trace) : trace[i] \in {"error", "iter_failed", "exit_failure"})
    => result.kind = "Err"

ContextKeys == {"inputs", "audio_filter", "fit_mode", "has_bg_music", "exit_code"}

\* C4: when the encoder exits with a non-success status the error value
\* returned to the caller carries the inputs, the filter graph, the fit mode,
\* the background-music flag and the exit code.
C4_ErrorCarriesContext ==
    (/\ IsTimeline
     /\ Returned
     /\ trace /= <<>>
     /\ trace[Len(trace)] = "exit_failure")
    => \A key \in ContextKeys :
          \E i \in 1..Len(result.context) : result.context[i].key = key

RemovalAttempted(file) ==
    \E i \in 1..Len(fsops) : fsops[i].op = "remove" /\ fsops[i].file = file

ListWritten ==
    \E i \in 1..Len(fsops) :
       fsops[i].op = "write" /\ fsops[i].ok /\ fsops[i].file = sess.concat_list_path

\* C5: in the multi-file legacy path every return after the concat list was
\* written comes after a removal of the concat list and a removal of the
\* combined audio file were attempted.
C5_CleanupOnEveryReturn ==
    (/\ IsLegacy
     /\ Returned
     /\ sess.built
     /\ ListWritten)
    => /\ RemovalAttempted(sess.concat_list_path)
       /\ RemovalAttempted(sess.temp_audio)

(* ==================== properties of the compiled graph ================= *)
Built == pc = "t_built"

SourcesOf(clips) == {clips[i].clip.source_file : i \in 1..Len(clips)}
FirstUse(clips, src) ==
    CHOOSE i \in 1..Len(clips) :
        clips[i].clip.source_file = src /\ \A j \in 1..(i - 1) : clips[j].clip.source_file /= src

\* the unique list: the distinct sources, each once, in first-seen order
IsFirstSeenList(unique, clips) ==
    /\ {unique[k] : k \in 1..Len(unique)} = SourcesOf(clips)
    /\ Len(unique) = Cardinality(SourcesOf(clips))
    /\ \A k \in 1..Len(unique), l \in 1..Len(unique) :
          k < l => FirstUse(clips, unique[k]) < FirstUse(clips, unique[l])

\* C6: the input index written into each clip's stage is the position of the
\* clip's source in the first-seen unique list plus 1 (2 with background
\* music), and that slot of the encoder's input list holds the clip's source:
\* image at 0, music at 1 if present, then each distinct source once.  The
\* lookup never fails.
C6_InputIndex ==
    /\ pc /= "panicked"
    /\ Built =>
        LET clips  == sess.all_clips
            unique == sess.unique_sources
            base   == IF args.bg_music_path.some THEN 2 ELSE 1
            inputs == EncodeCmd.inputs
        IN  /\ IsFirstSeenList(unique, clips)
            /\ Len(inputs) = base + Cardinality(SourcesOf(clips))
            /\ inputs[1] = args.image_path
            /\ args.bg_music_path.some => inputs[2] = args.bg_music_path.val
            /\ \A i \in 1..Len(clips) :
                  LET idx == sess.audio_filter[i].ins[1].idx
                  IN  /\ sess.audio_filter[i].ins = <<InputPad(idx)>>
                      /\ \E k \in 1..Len(unique) :
                            /\ unique[k] = clips[i].clip.source_file
                            /\ idx = (k - 1) + base
                      /\ idx >= base
                      /\ inputs[idx + 1] = clips[i].clip.source_file
            /\ \A i \in 1..Len(clips), j \in 1..Len(clips) :
                  clips[i].clip.source_file = clips[j].clip.source_file
                  => sess.audio_filter[i].ins = sess.audio_filter[j].ins

\* three clips over two sources with background music: the repeated source
\* takes one slot
C6_Witness ==
    /\ Built
    /\ args.bg_music_path.some
    /\ Len(sess.all_clips) = 3
    /\ Len(sess.unique_sources) = 2
    /\ sess.all_clips[1].clip.source_file = sess.all_clips[3].clip.source_file
    /\ sess.audio_filter[1].ins = <<InputPad(2)>>
    /\ sess.audio_filter[2].ins = <<InputPad(3)>>
    /\ sess.audio_filter[3].ins = <<InputPad(2)>>

Defines(graph, label) == {i \in 1..Len(graph) : \E o \in 1..Len(graph[i].outs) : graph[i].outs[o] = label}
Mentions(graph, name) ==
    {i \in 1..Len(graph) :
        \/ \E o \in 1..Len(graph[i].outs) : graph[i].outs[o].name = name
        \/ \E o \in 1..Len(graph[i].ins) : graph[i].ins[o].name = name}

\* C7: the audio stream mapped to the output is the graph's terminal label.
\* With background music the graph has exactly one bgmusic stage, reading
\* input 1, and one two-way mix of [aout] and [bgmusic] into [final], and the
\* output is mapped from [final]; without it no stage mentions bgmusic or
\* final and the output is mapped from [aout].  The mapped label is defined
\* exactly once.
C7_MappedLabel ==
    Built =>
        LET graph  == EncodeCmd.filter_complex
            mapped == EncodeCmd.maps[2]
            n      == Len(graph)
        IN  /\ EncodeCmd.maps[1] = Lbl("0:v", -1)
            /\ Cardinality(Defines(graph, mapped)) = 1
            /\ Defines(graph, mapped) = {n}
            /\ IF args.bg_music_path.some
               THEN /\ mapped = Lbl("final", -1)
                    /\ Defines(graph, Lbl("bgmusic", -1)) = {n - 1}
                    /\ graph[n - 1].ins = <<InputPad(1)>>
                    /\ graph[n - 1].filters[1].f = "aloop"
                    /\ graph[n].ins = <<Lbl("aout", -1), Lbl("bgmusic", -1)>>
                    /\ graph[n].filters[1].f = "amix"
                    /\ graph[n].filters[1].nums[1] = Num("inputs", 2)
                    /\ Cardinality(Defines(graph, Lbl("aout", -1))) = 1
               ELSE /\ mapped = Lbl("aout", -1)
                    /\ Mentions(graph, "bgmusic") = {}
                    /\ Mentions(graph, "final") = {}

\* one clip with background music: clip stage, mix, bgmusic stage, final mix
C7_Witness ==
    /\ Built
    /\ args.bg_music_path.some
    /\ Len(sess.audio_filter) = 4
    /\ EncodeCmd.maps[2] = Lbl("final", -1)

RECURSIVE ClipsBefore(_, _)
ClipsBefore(tracks, t) == IF t <= 1 THEN 0 ELSE Len(tracks[t - 1].clips) + ClipsBefore(tracks, t - 1)

\* d is x truncated toward zero, x = num / den with den > 0
IsTruncation(d, num, den) ==
    IF num >= 0 THEN d * den <= num /\ num < (d + 1) * den
    ELSE d * den >= num /\ num > (d - 1) * den

\* C8: the clip at index i of the flattened list gets exactly one stage
\* labelled a{i}: atrim from trim_start to trim_start + duration (trim_end is
\* not used), asetpts=PTS-STARTPTS, volume = the volume of the clip's own
\* track, adelay with start_time * 1000 truncated to an integer on both
\* channels.
C8_ClipStage ==
    Built =>
        LET graph  == sess.audio_filter
            tracks == args.timeline
        IN  \A t \in 1..Len(tracks) : \A j \in 1..Len(tracks[t].clips) :
              LET i    == ClipsBefore(tracks, t) + j - 1
                  clip == tracks[t].clips[j]
                  st   == graph[i + 1]
              IN  /\ Defines(graph, Lbl("a", i)) = {i + 1}
                  /\ st.outs = <<Lbl("a", i)>>
                  /\ Len(st.filters) = 4
                  /\ st.filters[1] = Filter("atrim", <<Num("start", clip.trim_start),
                                        Num("end", clip.trim_start + clip.duration)>>, <<>>)
                  /\ st.filters[2] = Filter("asetpts", <<>>, <<"PTS-STARTPTS">>)
                  /\ st.filters[3] = Filter("volume", <<Num("", tracks[t].volume)>>, <<>>)
                  /\ st.filters[4].f = "adelay"
                  /\ st.filters[4].nums[1].v = st.filters[4].nums[2].v
                  /\ IsTruncation(st.filters[4].nums[1].v, clip.start_time * 1000, ClipTicksPerSec)

\* the example clip (start 0, duration 5 s, trim_start 2 s) on a track at half
\* volume, after a clip starting at 1.2345 s whose trim_end lies beyond the window
C8_Witness ==
    /\ Built
    /\ Len(args.timeline) = 2
    /\ args.timeline[1].clips = <<Clip(SrcA, 12345, 50000, 0, 90000)>>
    /\ args.timeline[2].clips = <<Clip(SrcA, 0, 50000, 20000, 70000)>>
    /\ args.timeline[2].volume = 50
    /\ sess.audio_filter[1].filters[1].nums = <<Num("start", 0), Num("end", 50000)>>
    /\ sess.audio_filter[1].filters[4].nums = <<Num("", 1234), Num("|", 1234)>>
    /\ sess.audio_filter[2].filters[1].nums = <<Num("start", 20000), Num("end", 70000)>>
    /\ sess.audio_filter[2].filters[3].nums = <<Num("", 50)>>
    /\ sess.audio_filter[2].filters[4].nums = <<Num("", 0), Num("|", 0)>>

(* ======================= properties of the progress ==================== *)
\* the largest start_time + duration over the flattened clips
LatestEnd ==
    LET ends == {sess.all_clips[i].clip.start_time + sess.all_clips[i].clip.duration :
                     i \in 1..Len(sess.all_clips)}
    IN  CHOOSE e \in ends : \A f \in ends : f <= e

\* elapsed seconds of a sample, in clip ticks
Elapsed(sample) == parse_time_to_seconds(sample.time) * (ClipTicksPerSec \div TicksPerSec)

\* p = min(100, elapsed / total * 100) when total > 0, else 0   (p = n/d)
PercentRule(p, elapsed, total) ==
    /\ p.d > 0
    /\ IF total > 0
       THEN IF elapsed * 100 <= 100 * total THEN p.n * total = elapsed * 100 * p.d
            ELSE p.n = 100 * p.d
       ELSE p.n = 0

PctLeq(p, q) == p.n * q.d <= q.n * p.d

PercentIsMonotone ==
    \A i \in 1..Len(emitted), j \in 1..Len(emitted) :
        (i < j /\ Elapsed(emitted[i]) <= Elapsed(emitted[j]))
        => PctLeq(emitted[i].progress, emitted[j].progress)

\* C9 as stated: every emitted percent follows the rule, the percents are
\* non-decreasing along non-decreasing elapsed times, and the percent is 100
\* whenever the elapsed time exceeds the total.
C9_HundredPastTotal ==
    (IsTimeline /\ emitted /= <<>>) =>
        /\ \A i \in 1..Len(emitted) :
              /\ PercentRule(emitted[i].progress, Elapsed(emitted[i]), LatestEnd)
              /\ Elapsed(emitted[i]) > LatestEnd => emitted[i].progress.n = 100 * emitted[i].progress.d
        /\ PercentIsMonotone

\* C9 amended: every emitted percent follows the rule, the percents are
\* non-decreasing along non-decreasing elapsed times, and the percent is 100
\* whenever the total is positive and the elapsed time is at least the total
\* (with a total of 0 or less the percent stays 0).
C9_Percent ==
    (IsTimeline /\ emitted /= <<>>) =>
        /\ \A i \in 1..Len(emitted) :
              /\ PercentRule(emitted[i].progress, Elapsed(emitted[i]), LatestEnd)
              /\ (LatestEnd > 0 /\ Elapsed(emitted[i]) >= LatestEnd)
                 => emitted[i].progress.n = 100 * emitted[i].progress.d
              /\ LatestEnd <= 0 => emitted[i].progress.n = 0
        /\ PercentIsMonotone

\* one clip ending at 5 s; the samples at 2 s and at 7 s gave 40 and 100
C9_Witness ==
    /\ IsTimeline
    /\ pc = "t_streaming"
    /\ Len(sess.all_clips) = 1
    /\ LatestEnd = 50000
    /\ Len(emitted) = 2
    /\ emitted[1].time = <<"0", ":", "0", ":", "2">>
    /\ emitted[1].progress.n = 40 * emitted[1].progress.d
    /\ emitted[2].time = <<"7">>
    /\ emitted[2].progress = [n |-> 100, d |-> 1]

(* =================== properties of the supervised stream =============== *)
Drained == \E i \in 1..Len(trace) : trace[i] = "eof"
LastStep == trace[Len(trace)]

\* while the stream is read, a step reads one more event or reaches the end
\* of the stream; it returns nothing
StreamStep ==
    (IsTimeline /\ pc = "t_streaming") =>
        /\ pc' \in {"t_streaming", "t_drained"}
        /\ result' = NoResult
        /\ procs' = procs
        /\ Len(trace') = Len(trace) + 1
        /\ pc' = "t_drained" <=> trace'[Len(trace')] = "eof"

\* the result of a drained session, read off the step that followed the drain
ResultByExitStatus ==
    (IsTimeline /\ Returned /\ Drained) =>
        /\ trace[Len(trace) - 1] = "eof"
        /\ LastStep = "exit_success" => result = Ok(procs[1].output)
        /\ LastStep = "exit_failure" => result = Err("FFmpeg encoding failed", <<>>)
        /\ LastStep = "wait_failed"
              => result = Err("Failed to execute FFmpeg: ", <<Ctx("cause", "wait")>>)
        /\ LastStep \in {"exit_success", "exit_failure", "wait_failed"}

\* C11: the result of a timeline session does not depend on what the event
\* stream carried nor on whether a progress sample was delivered: every
\* event leaves the session reading, the stream is read to its end, and the
\* result is fixed by the exit status reported afterwards.
C11_ResultIgnoresStream ==
    /\ [](ResultByExitStatus)
    /\ [](IsTimeline /\ pc = "t_streaming" => ENABLED TStreamEnd)
    /\ [][StreamStep]_vars

\* a session that saw an undelivered sample with a malformed time and an error
\* event, and still ended with Ok
C11_Witness ==
    /\ IsTimeline
    /\ Returned
    /\ result.kind = "Ok"
    /\ Len(emitted) = 1
    /\ emitted[1].time = <<"N", "/", "A">>
    /\ ~emitted[1].delivered
    /\ emitted[1].progress.n = 0
    /\ \E i \in 1..Len(trace) : trace[i] = "error"

SpawnAttempts == Cardinality({i \in 1..Len(trace) : trace[i] \in {"spawn", "spawn_failed"}})

\* C12: a timeline session that passed validation tries to spawn the encoder
\* exactly once.  A failed spawn, like a failed acquisition, returns an error
\* at once: nothing was spawned, nothing is tried again, no progress sample
\* was emitted.  After a successful spawn no other subprocess is spawned.
C12_SpawnOnce ==
    IsTimeline =>
        /\ SpawnAttempts <= 1
        /\ Len(procs) <= 1
        /\ Len(procs) = 1 <=> Spawned
        /\ (sess.built /\ pc \notin {"t_built", "panicked"}) => SpawnAttempts = 1
        /\ (\E i \in 1..Len(trace) : trace[i] = "spawn_failed") =>
              /\ trace = <<"spawn_failed">>
              /\ Returned
              /\ result.kind = "Err"
              /\ procs = <<>>
              /\ emitted = <<>>
        /\ (Returned /\ ~sess.built) =>
              /\ result.kind = "Err"
              /\ trace = <<>>
              /\ procs = <<>>
              /\ emitted = <<>>

\* the spawn failed and the session returned the spawn error
C12_Witness ==
    /\ IsTimeline
    /\ Returned
    /\ sess.built
    /\ trace = <<"spawn_failed">>
    /\ result.msg = "Failed to spawn FFmpeg: "
    /\ procs = <<>>

(* ====================== the legacy encoder command ===================== *)
LegacyEncoding == IsLegacy /\ Spawned
EncodeCommand == procs[Len(procs)]

\* the file a pad [k:a] of the command reads: the k-th input, counted from 0
PadFile(cmd, pad) == cmd.inputs[pad.idx + 1]
StagesWith(graph, f) == {i \in 1..Len(graph) : \E k \in 1..Len(graph[i].filters) : graph[i].filters[k].f = f}

\* C17: in the legacy command with background music every pad of the audio
\* graph denotes an audio input: the looped music is read from the music's
\* slot, the stream labelled main from the slot of the main audio, and no
\* stream from the slot of the image.
C17_PadsDenoteAudio ==
    (LegacyEncoding /\ args.bg_music_path.some) =>
        LET cmd   == EncodeCommand
            graph == cmd.filter_complex
        IN  /\ cmd.inputs = <<args.image_path, args.bg_music_path.val, sess.final_audio_path>>
            /\ \A i \in 1..Len(graph) : \A j \in 1..Len(graph[i].ins) :
                  graph[i].ins[j].name = ":a" =>
                      PadFile(cmd, graph[i].ins[j]) /= args.image_path
            /\ \A i \in StagesWith(graph, "aloop") :
                  /\ Len(graph[i].ins) = 1
                  /\ graph[i].ins[1].name = ":a"
                  /\ PadFile(cmd, graph[i].ins[1]) = args.bg_music_path.val
            /\ \A i \in Defines(graph, Lbl("main", -1)) :
                  /\ Len(graph[i].ins) = 1
                  /\ graph[i].ins[1].name = ":a"
                  /\ PadFile(cmd, graph[i].ins[1]) = sess.final_audio_path

\* the audio graph of the legacy command: the filter_complex with background
\* music, the one unlabelled -af chain without
LegacyAudioGraph(cmd) ==
    IF cmd.filter_complex /= <<>> THEN cmd.filter_complex
    ELSE <<Stage(<<>>, cmd.af, <<>>)>>

\* the timeline graph for one clip of the combined audio, starting at 0 and
\* spanning [0, total)
OneClipGraph(source, total, main_volume, bg_music_path, bg_music_volume) ==
    LET all_clips == <<[clip |-> Clip(source, 0, total, 0, total), track_volume |-> 100]>>
    IN  AudioFilter(all_clips, UniqueSources(all_clips), VolumeOf(main_volume),
                    bg_music_path.some, bg_music_volume)

RoundTripTotals == {0, 50000, 100000}

\* C14: for two audio files the audio graph of the legacy command is the graph
\* the timeline path produces for one clip spanning the same total duration
\* with trim [0, total), the same volumes and the same background music.
C14_LegacyEqualsOneClip ==
    (LegacyEncoding /\ Len(args.audio_paths) = 2) =>
        \E total \in RoundTripTotals :
            LegacyAudioGraph(EncodeCommand)
                = OneClipGraph(sess.final_audio_path, total, args.main_audio_volume,
                               args.bg_music_path, args.bg_music_volume)

(* ==================== properties of the clip graph ===================== *)
\* the places where a label is read: (stage, position) pairs
Reads(graph, label) ==
    {<<i, j>> \in (1..Len(graph)) \X (1..(MaxClips * MaxTracks + 2)) :
        j <= Len(graph[i].ins) /\ graph[i].ins[j] = label}

\* C16: for N >= 1 clips the compiled graph is N clip stages followed by one
\* mixer that declares N inputs; every label a0..a(N-1) is produced by
\* exactly one clip stage and read exactly once, by the mixer, in index
\* order; the mixer applies the master volume and produces [aout], once.
\* For no clip the graph is empty.
C16_GraphShape ==
    pc = "compile_done" =>
        LET n     == Len(args.clips)
            graph == result.val
        IN  IF n = 0 THEN graph = <<>>
            ELSE /\ Len(graph) = n + 1
                 /\ \A i \in 1..n :
                       /\ graph[i].outs = <<Lbl("a", i - 1)>>
                       /\ Len(graph[i].ins) = 1
                       /\ graph[i].ins[1].name = ":a"
                       /\ graph[i].filters[1].f = "atrim"
                       /\ Defines(graph, Lbl("a", i - 1)) = {i}
                       /\ Reads(graph, Lbl("a", i - 1)) = {<<n + 1, i>>}
                 /\ Len(graph[n + 1].ins) = n
                 /\ Len(graph[n + 1].filters) = 2
                 /\ graph[n + 1].filters[1].f = "amix"
                 /\ graph[n + 1].filters[1].nums = <<Num("inputs", n)>>
                 /\ graph[n + 1].filters[2] = Filter("volume", <<Num("", args.main_volume)>>, <<>>)
                 /\ graph[n + 1].outs = <<Lbl("aout", -1)>>
                 /\ Defines(graph, Lbl("aout", -1)) = {n + 1}
                 /\ Mentions(graph, "aout") = {n + 1}
                 /\ Mentions(graph, "a") = 1..(n + 1)

\* three clips compiled into three stages and a mixer of three inputs
C16_Witness ==
    /\ pc = "compile_done"
    /\ Len(args.clips) = 3
    /\ Len(result.val) = 4
    /\ result.val[4].ins = <<Lbl("a", 0), Lbl("a", 1), Lbl("a", 2)>>
    /\ result.val[4].filters[1].nums[1].v = 3

(* ==================== properties of the output name ==================== *)
LeadingSpaces(name) ==
    CHOOSE k \in 0..Len(name) :
        /\ \A i \in 1..k : name[i] = " "
        /\ k < Len(name) => name[k + 1] /= " "
TrailingSpaces(name) ==
    CHOOSE k \in 0..Len(name) :
        /\ \A i \in (Len(name) - k + 1)..Len(name) : name[i] = " "
        /\ k < Len(name) => name[Len(name) - k] /= " "
Mp4Suffix(t) ==
    /\ Len(t) >= 4
    /\ t[Len(t) - 3] = "."
    /\ t[Len(t) - 2] \in {"m", "M"}
    /\ t[Len(t) - 1] \in {"p", "P"}
    /\ t[Len(t)] = "4"

\* the given name without its surrounding spaces, unsafe characters replaced
\* one for one by an underscore
Stem(name) ==
    LET lead  == LeadingSpaces(name)
        trail == IF lead = Len(name) THEN 0 ELSE TrailingSpaces(name)
    IN  [i \in 1..(Len(name) - lead - trail) |->
            IF name[lead + i] \in UnsafeChars THEN "_" ELSE name[lead + i]]

\* C15: the output name has none of / \ : * ? " < > | (each was replaced by
\* one underscore), has no space at either end, and ends in .mp4 in some
\* case: a name that already ends in .mp4, in any case, is kept as it is,
\* any other gets .mp4 appended; without a name it is output.mp4.
\* Sanitizing the result again changes nothing.
C15_SanitizedName ==
    pc = "name_done" =>
        LET r == result.val
        IN  /\ \A i \in 1..Len(r) : r[i] \notin UnsafeChars
            /\ Mp4Suffix(r)
            /\ r[1] /= " "
            /\ OutputName(Some(r)) = r
            /\ IF args.output_filename.some
               THEN LET stem == Stem(args.output_filename.val)
                    IN  r = IF Mp4Suffix(stem) THEN stem ELSE stem \o DotMp4
               ELSE r = <<"o", "u", "t", "p", "u", "t", ".", "m", "p", "4">>

\* a name with spaces around it, an unsafe character and an upper-case extension
C15_Witness ==
    /\ pc = "name_done"
    /\ args.output_filename = Some(<<" ", "a", ":", ".", "M", "p", "4", " ">>)
    /\ result.val = <<"a", "_", ".", "M", "p", "4">>

(* ===================== properties of two sessions ====================== *)
\* accesses to a file that the other session wrote last
ForeignAccesses == {a \in fsops : a.owner \notin {0, a.by}}

TempPaths(s) ==
    {PathJoin(LegacyDir(args[s]).val, ConcatListName),
     PathJoin(LegacyDir(args[s]).val, TempAudioName)}

\* a step changes the position, session record, child handles and result of
\* one session only
OwnStateOnly ==
    \E s \in Sessions : \A o \in Sessions \ {s} :
        /\ pc'[o] = pc[o]
        /\ sess'[o] = sess[o]
        /\ procs'[o] = procs[o]
        /\ result'[o] = result[o]

\* C13 as stated: however two sessions interleave, none reads, overwrites or
\* deletes a transient file (concat list, combined audio) written by the other.
C13_NoForeignAccess == ForeignAccesses = {}

\* C13 amended: the sessions share no state of their own (position, session
\* record, child handles, result), and when their first audio files lie in
\* different directories their transient files are distinct and none reads,
\* overwrites or deletes a transient file written by the other.
C13_DisjointAcrossDirs ==
    /\ [][OwnStateOnly]_vars
    /\ [](LegacyDir(args[1]) /= LegacyDir(args[2]) =>
             /\ ForeignAccesses = {}
             /\ \A a \in fsops : a.file \in TempPaths(a.by)
             /\ \A e \in files : e.file \in TempPaths(e.by))

\* both sessions, in different directories, ran to Ok and removed their files
C13_Witness ==
    /\ LegacyDir(args[1]) /= LegacyDir(args[2])
    /\ \A s \in Sessions :
          /\ pc[s] = "done"
          /\ result[s].kind = "Ok"
          /\ \E a \in fsops : a.by = s /\ a.op = "remove" /\ a.file = sess[s].temp_audio
          /\ \E a \in fsops : a.by = s /\ a.op = "read" /\ a.file = sess[s].concat_list_path

====
